---- MODULE Spec2Model ----
(***************************************************************************)
(* Rotary-encoder handler of KlipperScreenEncoderSupport                   *)
(* (ks_includes/Encoder.py): quadrature decoder, burst accumulator,        *)
(* speed curve, boost policy and dispatch to the current mode; the button  *)
(* classifier, the mode registry and start() / stop() with their worker.   *)
(* The SpinEntry widget (ks_includes/widgets/spinentry.py): its clamped    *)
(* value, its text and its active flag.                                    *)
(*                                                                         *)
(* Time is the monotonic clock in milliseconds (time.monotonic() returns   *)
(* seconds as a float; 0.05 s and 0.5 s are 50 and 500 here).              *)
(***************************************************************************)
EXTENDS Integers, Sequences, FiniteSets, TLC

VARIABLES
    last_state,         \* EncoderHandler.last_state: the 4-bit register
    encoder_position,   \* EncoderHandler.encoder_position: the accumulator
    encoder_last_time,  \* EncoderHandler.encoder_last_time (ms)
    running,            \* EncoderHandler.running
    modes,              \* EncoderHandler.modes: name -> EncoderMode
    mode_order,         \* list(self.modes.keys()): insertion order of the dict
    current_mode,       \* EncoderHandler.current_mode (a name or None)
    mode_index,         \* EncoderHandler.mode_index
    rotation_callback,  \* EncoderHandler.rotation_callback (a callable or None)
    button_press_callback,  \* EncoderHandler.button_press_callback
    button_hold_callback,   \* EncoderHandler.button_hold_callback
    mode_change_callback,   \* EncoderHandler.mode_change_callback
    last_button_state,  \* EncoderHandler.last_button_state
    button_press_time,  \* EncoderHandler.button_press_time (ms)
    use_gpio,           \* EncoderHandler.use_gpio
    stop_event,         \* EncoderHandler.stop_event: is the event set
    thread,             \* EncoderHandler.thread: the worker started last (0: None)
    workers,            \* the worker threads created so far: where each one is
    now,                \* the monotonic clock (ms)
    last,               \* what the last step did: the observable effects of a call
    run,                \* observer of a run of clockwise Gray-code steps
    cycle,              \* observer of consecutive next_mode calls
    detect,             \* the pins GPIO.add_event_detect has a callback on
    callback,           \* the GPIO callback thread: idle, or past the running
                        \* check of the handler it is in
    button_level,       \* observer: the level of the last button sample processed
    fold,               \* observer: the samples processed, applied one after another
    actual,             \* observer: the button itself, and when it was last pressed
    min_val,            \* SpinEntry.min_val
    max_val,            \* SpinEntry.max_val
    step,               \* SpinEntry.step
    page_step,          \* SpinEntry.page_step
    value,              \* SpinEntry._value
    text,               \* the text of the Gtk.Entry, a sequence of characters
    is_active,          \* SpinEntry.is_active
    screen,             \* observer: the mode SpinEntry asked self.screen for last
    typed               \* observer: the text the user typed last

encVars  == <<last_state, encoder_position, encoder_last_time>>
modeVars == <<modes, mode_order, current_mode, mode_index>>
cbVars   == <<rotation_callback, button_press_callback, button_hold_callback,
              mode_change_callback>>
btnVars  == <<last_button_state, button_press_time>>
lifeVars == <<use_gpio, stop_event, thread, workers, detect, callback>>
spinVars == <<min_val, max_val, step, page_step, value, text, is_active, screen,
              typed>>
vars     == <<last_state, encoder_position, encoder_last_time, running, modes,
              mode_order, current_mode, mode_index, rotation_callback,
              button_press_callback, button_hold_callback, mode_change_callback,
              last_button_state, button_press_time, use_gpio, stop_event,
              thread, workers, detect, callback, now, last, run, cycle,
              button_level, fold, actual, min_val, max_val, step, page_step,
              value, text, is_active, screen, typed>>

----------------------------------------------------------------------------
(* Bounds of the model *)

\* the clock stops advancing here
MaxTime == 600
\* the longest observed run of clockwise steps (3 detents)
MaxRunSteps == 12
\* the accumulator is not followed beyond this while handlers raise
MaxPosition == 6
\* the clock stops advancing here while the button is watched
MaxButtonTime == 3000

\* how far one Tick advances the clock
TickSteps == {300}
\* how long the mode handlers of one burst take
Durations == {0, 300}
\* the longest observed run of consecutive next_mode calls
MaxCycle == 6
\* the most worker threads start() creates
MaxWorkers == 3
\* how far one ButtonTick advances the clock
ButtonTickSteps == {500}

----------------------------------------------------------------------------
(* Values *)

None == "None"

\* Python truth value of a name or a callable: None and "" are false
Truthy(v) == v # None /\ v # ""

Abs(n) == IF n < 0 THEN -n ELSE n
Min(x, y) == IF x <= y THEN x ELSE y
Max(x, y) == IF x >= y THEN x ELSE y

\* abs(self.encoder_position) >= 4
BurstThreshold == 4

\* mutant: 1011 mistyped as 1010
ClockwiseCodesTypo == {13, 4, 2, 10}

\* the transition codes of the two directions
ClockwiseCodes == {13, 4, 2, 11}

\* mutant: 1111, both pins high twice, taken for a step
CounterclockwiseCodesIdle == {14, 8, 1, 7, 15}

CounterclockwiseCodes == {14, 8, 1, 7}

----------------------------------------------------------------------------
(* The quadrature decoder *)

\* mutant: the register shifted by one bit instead of two
NextStateShiftOne(reg, a, b) == ((reg * 2) + (a * 2) + b) % 16

\* state = ((last_state << 2) + (A << 1) + B) & 0b1111
NextState(reg, a, b) == ((reg * 4) + (a * 2) + b) % 16

\* encoder_position after the +1 / -1 of the transition tables
Accumulate(pos, state) ==
    IF state \in ClockwiseCodes THEN pos + 1
    ELSE IF state \in CounterclockwiseCodes THEN pos - 1
    ELSE pos

\* mutant: > instead of >=
ThresholdExceeded(pos) == Abs(pos) > BurstThreshold

\* if abs(self.encoder_position) >= 4
ThresholdReached(pos) == Abs(pos) >= BurstThreshold

----------------------------------------------------------------------------
(* The speed curve and the boost policy *)

\* speed = max(0.05, min(0.5, time.monotonic() - self.encoder_last_time))
Speed(t, t_last) == Max(50, Min(500, t - t_last))

\* int(A * ((-math.log(speed)) ** p) + B) with A = 2.223, p = 1.4, B = -0.329,
\* at millisecond resolution: the value is >= k exactly when
\* speed <= 1000 * exp(-(((k - B) / A) ** (1 / p))), which is
\* 500.32, 355.64, 263.33, 199.94, 154.54, 121.07, 95.88, 76.62, 61.69, 49.996
\* for k = 1 .. 10; CurveBreaks[k] is the last whole millisecond below it.
CurveBreaks == <<500, 355, 263, 199, 154, 121, 95, 76, 61, 49>>
CurveBy(breaks, speed) ==
    LET ks == {k \in 1..Len(breaks) : speed <= breaks[k]}
    IN  IF ks = {} THEN 0 ELSE CHOOSE k \in ks : \A j \in ks : j <= k

\* mutant: round() instead of int(): the value is >= k - 0.5 up to these
CurveRounded(speed) == CurveBy(<<500, 418, 304, 228, 175, 136, 107, 85, 68, 55>>, speed)

Curve(speed) == CurveBy(CurveBreaks, speed)

\* the raw repeat count of a burst
RawCount(speed) ==
    IF speed <= 50 THEN 10
    ELSE IF speed >= 500 THEN 1
    ELSE Curve(speed)

\* mutant: >= instead of >
BoostAtFive(count) == count >= 5

\* if count > 5: boost = True
BoostOf(count) == count > 5

\* mutant: halved whether boosted or not
HalveAlways(count) == count \div 2

\* count >>= 1 when count > 5
RepeatCountOf(count) == IF count > 5 THEN count \div 2 ELSE count

----------------------------------------------------------------------------
(* EncoderMode *)

Call(fn, args) == [fn |-> fn, args |-> args]

\* the handlers that raise an exception when called
Raising == {"boom", "boom_fast"}
Raises(func) == func \in Raising

\* mutant: the loop goes on after a call that raised
RepeatAll(func, n) == [i \in 1..n |-> Call(func, <<>>)]

\* EncoderMode.repeat: func() called repeat times; a call that raises ends
\* the loop
Repeat(func, n) ==
    IF Raises(func) /\ n >= 1 THEN <<Call(func, <<>>)>>
    ELSE [i \in 1..n |-> Call(func, <<>>)]

\* does repeat(func, n) raise
RepeatRaises(func, n) == func # None /\ Raises(func) /\ n >= 1

\* the handler handle_clockwise runs: the boost handler if bound and boost
SelectClockwise(mode, boost) ==
    IF Truthy(mode.clockwise_boosthandler) /\ boost
    THEN mode.clockwise_boosthandler
    ELSE IF Truthy(mode.clockwise_handler) THEN mode.clockwise_handler
    ELSE None

\* mutant: the boost handler whenever it is bound
SelectCounterclockwiseFast(mode, boost) ==
    IF Truthy(mode.counterclockwise_boosthandler)
    THEN mode.counterclockwise_boosthandler
    ELSE IF Truthy(mode.counterclockwise_handler) THEN mode.counterclockwise_handler
    ELSE None

\* the handler handle_counterclockwise runs
SelectCounterclockwise(mode, boost) ==
    IF Truthy(mode.counterclockwise_boosthandler) /\ boost
    THEN mode.counterclockwise_boosthandler
    ELSE IF Truthy(mode.counterclockwise_handler) THEN mode.counterclockwise_handler
    ELSE None

\* EncoderMode.handle_clockwise: the handler calls made, the value returned
\* and whether a handler raised instead
HandleClockwise(mode, boost, repeatcount) ==
    LET h == SelectClockwise(mode, boost)
    IN  [calls  |-> IF h = None THEN <<>> ELSE Repeat(h, repeatcount),
         result |-> mode.name \o "_clockwise",
         raised |-> RepeatRaises(h, repeatcount)]

\* mutant: the result string of handle_clockwise
HandleCounterclockwiseCopied(mode, boost, repeatcount) ==
    LET h == SelectCounterclockwise(mode, boost)
    IN  [calls  |-> IF h = None THEN <<>> ELSE Repeat(h, repeatcount),
         result |-> mode.name \o "_clockwise",
         raised |-> RepeatRaises(h, repeatcount)]

\* EncoderMode.handle_counterclockwise
HandleCounterclockwise(mode, boost, repeatcount) ==
    LET h == SelectCounterclockwise(mode, boost)
    IN  [calls  |-> IF h = None THEN <<>> ELSE Repeat(h, repeatcount),
         result |-> mode.name \o "_counterclockwise",
         raised |-> RepeatRaises(h, repeatcount)]

----------------------------------------------------------------------------
(* EncoderHandler._handle_encoder *)

\* mutant: the comparison inverted
IsClockwiseInverted(pos) == pos < 0

\* is the burst reported as clockwise: if self.encoder_position > 0
IsClockwise(pos) == pos > 0

\* self.current_mode and self.current_mode in self.modes
HasCurrentMode(cur, ms) == Truthy(cur) /\ cur \in DOMAIN ms

\* mutant: the rotation callback called although no mode took the burst
DispatchReportsAnyway(pos, boost, count, cur, ms, cb) ==
    IF ~HasCurrentMode(cur, ms)
    THEN (IF Truthy(cb)
          THEN <<Call(cb, <<"_clockwise", IF IsClockwise(pos) THEN "clockwise"
                                          ELSE "counterclockwise">>)>>
          ELSE <<>>)
    ELSE LET cw  == IsClockwise(pos)
             h   == IF cw THEN HandleClockwise(ms[cur], boost, count)
                    ELSE HandleCounterclockwise(ms[cur], boost, count)
             fn  == IF cw THEN "handle_clockwise" ELSE "handle_counterclockwise"
             tag == IF cw THEN "clockwise" ELSE "counterclockwise"
         IN  <<Call(fn, <<boost, count>>)>>
                 \o h.calls
                 \o (IF Truthy(cb) /\ ~h.raised THEN <<Call(cb, <<h.result, tag>>)>>
                     ELSE <<>>)

\* what one burst calls, in order: handle_clockwise or handle_counterclockwise
\* of the current mode, the handlers that call runs, then, unless a handler
\* raised, the rotation callback with the returned string and the direction
Dispatch(pos, boost, count, cur, ms, cb) ==
    IF ~HasCurrentMode(cur, ms) THEN <<>>
    ELSE LET cw  == IsClockwise(pos)
             h   == IF cw THEN HandleClockwise(ms[cur], boost, count)
                    ELSE HandleCounterclockwise(ms[cur], boost, count)
             fn  == IF cw THEN "handle_clockwise" ELSE "handle_counterclockwise"
             tag == IF cw THEN "clockwise" ELSE "counterclockwise"
         IN  <<Call(fn, <<boost, count>>)>>
                 \o h.calls
                 \o (IF Truthy(cb) /\ ~h.raised THEN <<Call(cb, <<h.result, tag>>)>>
                     ELSE <<>>)

\* does the burst end in an exception of a mode handler, which nothing in
\* _handle_encoder catches
DispatchRaises(pos, boost, count, cur, ms) ==
    /\ HasCurrentMode(cur, ms)
    /\ IF IsClockwise(pos) THEN HandleClockwise(ms[cur], boost, count).raised
       ELSE HandleCounterclockwise(ms[cur], boost, count).raised

\* mutant: the timestamp refreshed by every call
TimeAlways(pos, t_end, t_last) == t_end

\* encoder_last_time and encoder_position when the call returns
TimeAfter(pos, t_end, t_last) == IF ThresholdReached(pos) THEN t_end ELSE t_last
PositionAfter(pos) == IF ThresholdReached(pos) THEN 0 ELSE pos

\* mutant: the accumulator reset although the handler raised
PositionAfterCallReset(pos, raised) == PositionAfter(pos)

\* encoder_position when the call ends: an exception leaves before the reset
PositionAfterCall(pos, raised) == IF raised THEN pos ELSE PositionAfter(pos)

\* an EncoderMode subclass instance with some of its four handlers bound
Mode(name, cw, ccw, cwb, ccwb) ==
    [name |-> name,
     clockwise_handler |-> cw, counterclockwise_handler |-> ccw,
     clockwise_boosthandler |-> cwb, counterclockwise_boosthandler |-> ccwb]

\* EncoderMode() with its defaults
NoMode == Mode(None, None, None, None, None)

\* the argument of a registry call: a mode name, an index or a mode object
NoArg == [kind |-> None, name |-> None, index |-> 0, mode |-> NoMode]

NoCycle == [start |-> None, n |-> 0]

\* the record of a step: for a _handle_encoder call that passed the running
\* check, the levels it read, the accumulator before the threshold check, and
\* for a burst the elapsed time, the raw count and the calls made
NoCall == [op |-> "none", ran |-> FALSE, sample |-> <<0, 0>>, pos |-> 0,
           burst |-> FALSE, elapsed |-> 0, raw |-> 0, calls |-> <<>>,
           arg |-> NoArg, raised |-> FALSE]

\* if not self.running: return
Ignores(isRunning) == ~isRunning

\* the register and the accumulator f after one more sample a, b, applied to
\* completion on its own; any: a sample has been processed
FoldAfter(f, a, b, raised) ==
    [reg |-> NextState(f.reg, a, b),
     pos |-> PositionAfterCall(Accumulate(f.pos, NextState(f.reg, a, b)), raised),
     any |-> TRUE]

\* _handle_encoder after its check of the flag: it reads levels a, b and
\* its callbacks take dur milliseconds
HandleEncoderBody(a, b, dur) ==
         LET state == NextState(last_state, a, b)
             pos   == Accumulate(encoder_position, state)
             burst == ThresholdReached(pos)
             speed == Speed(now, encoder_last_time)
             raw   == RawCount(speed)
             boost == BoostOf(raw)
             count == RepeatCountOf(raw)
             t_end == IF burst THEN now + dur ELSE now
             raised == burst /\ DispatchRaises(pos, boost, count, current_mode, modes)
         IN  /\ last_state' = state
             /\ encoder_position' = PositionAfterCall(pos, raised)
             /\ encoder_last_time' = IF raised THEN encoder_last_time
                                     ELSE TimeAfter(pos, t_end, encoder_last_time)
             /\ now' = t_end
             /\ fold' = FoldAfter(fold, a, b, raised)
             /\ last' = [op      |-> "handle_encoder",
                         ran     |-> TRUE,
                         sample  |-> <<a, b>>,
                         pos     |-> pos,
                         burst   |-> burst,
                         elapsed |-> IF burst THEN now - encoder_last_time ELSE 0,
                         raw     |-> IF burst THEN raw ELSE 0,
                         calls   |-> IF burst
                                     THEN Dispatch(pos, boost, count, current_mode,
                                                   modes, rotation_callback)
                                     ELSE <<>>,
                         arg     |-> NoArg,
                         raised  |-> raised]

\* one call of _handle_encoder that reads levels a, b and whose callbacks
\* take dur milliseconds
HandleEncoderCall(a, b, dur) ==
    IF Ignores(running)
    THEN /\ last' = [NoCall EXCEPT !.op = "handle_encoder"]
         /\ UNCHANGED <<encVars, now, fold>>
    ELSE HandleEncoderBody(a, b, dur)

HandleEncoder ==
    \E a \in 0..1, b \in 0..1, dur \in Durations :
        /\ now + dur <= MaxTime
        /\ HandleEncoderCall(a, b, dur)
        /\ UNCHANGED <<running, modeVars, cbVars, spinVars, btnVars, lifeVars, run, cycle,
                     button_level, actual>>

----------------------------------------------------------------------------
(* An observer of runs of clockwise steps *)

\* the level pair that follows in the clockwise sequence 11 -> 01 -> 00 -> 10 -> 11
GrayClockwise(levels) ==
    CASE levels = 3 -> 1
      [] levels = 1 -> 0
      [] levels = 0 -> 2
      [] levels = 2 -> 3

\* the rotation callback's calls with direction tag
Reported(calls, cb, tag) ==
    Len(SelectSeq(calls, LAMBDA e : e.fn = cb /\ e.args[2] = tag))

\* run counts the steps of the current run of clockwise single steps, the
\* accumulator the run started from, and the bursts reported during it; a
\* sample that is no clockwise step, or a run of MaxRunSteps, starts a new run
NoRun == [start |-> 0, steps |-> 0, cw |-> 0, ccw |-> 0]
RunAfter(r, levels, a, b, posAfter, calls, cb) ==
    IF ((a * 2) + b) = GrayClockwise(levels) /\ r.steps < MaxRunSteps
    THEN [r EXCEPT !.steps = @ + 1,
                   !.cw = @ + Reported(calls, cb, "clockwise"),
                   !.ccw = @ + Reported(calls, cb, "counterclockwise")]
    ELSE [NoRun EXCEPT !.start = posAfter]

\* _handle_encoder with handlers that return at once, watched by the observer
HandleEncoderObserved ==
    \E a \in 0..1, b \in 0..1 :
        /\ HandleEncoderCall(a, b, 0)
        /\ run' = RunAfter(run, last_state % 4, a, b, encoder_position',
                           last'.calls, rotation_callback)
        /\ UNCHANGED <<running, modeVars, cbVars, spinVars, btnVars, lifeVars, cycle,
                       button_level, actual>>

\* Event.set() wakes every worker blocked in stop_event.wait(); a worker so
\* woken goes on even if the event is cleared again before it runs
Wake(ws) == [i \in 1..Len(ws) |-> IF ws[i] = "blocked" THEN "cleanup" ELSE ws[i]]

\* EncoderHandler.stop: the flag cleared, the event set; join(timeout=0.0)
\* returns at once whether or not the worker has ended
Stop ==
    /\ running' = FALSE
    /\ stop_event' = TRUE
    /\ workers' = Wake(workers)
    /\ last' = [NoCall EXCEPT !.op = "stop"]
    /\ UNCHANGED <<encVars, modeVars, cbVars, spinVars, btnVars, use_gpio, thread, detect,
                   callback, now, run, cycle, button_level, fold, actual>>

\* the monotonic clock advances
Tick ==
    \E d \in TickSteps :
        /\ now + d <= MaxTime
        /\ now' = now + d
        /\ last' = [NoCall EXCEPT !.op = "tick"]
        /\ UNCHANGED <<encVars, running, modeVars, cbVars, spinVars, btnVars, lifeVars,
                       run, cycle, button_level, fold, actual>>

----------------------------------------------------------------------------
(* EncoderHandler._handle_button *)

\* __init__(..., hold_time=3), in seconds
HoldTime == 3

\* mutant: the two bits not masked
ButtonStateUnmasked(stored, level) == (stored * 2) + level

\* current_state = ((self.last_button_state << 1) + GPIO.input(pin)) & 0b11
ButtonState(stored, level) == ((stored * 2) + level) % 4

\* mutant: > instead of >=
IsLongPressStrict(duration) == duration > (HoldTime - 1) * 1000

\* press_duration >= (self.hold_time - 1)
IsLongPress(duration) == duration >= (HoldTime - 1) * 1000

\* the callback a release calls, if it is set
ReleaseCalls(duration, press_cb, hold_cb) ==
    IF IsLongPress(duration)
    THEN (IF Truthy(hold_cb) THEN <<Call(hold_cb, <<>>)>> ELSE <<>>)
    ELSE (IF Truthy(press_cb) THEN <<Call(press_cb, <<>>)>> ELSE <<>>)

\* one call of _handle_button that reads level; the record keeps the level
\* read, current_state as pos and, for a release, the press duration
HandleButtonCall(level) ==
    IF Ignores(running)
    THEN /\ last' = [NoCall EXCEPT !.op = "handle_button"]
         /\ UNCHANGED <<btnVars, button_level>>
    ELSE LET st       == ButtonState(last_button_state, level)
             duration == now - button_press_time
         IN  /\ button_press_time' = (IF st = 2 THEN now ELSE button_press_time)
             /\ last_button_state' = st
             /\ button_level' = level
             /\ last' = [NoCall EXCEPT
                            !.op = "handle_button",
                            !.ran = TRUE,
                            !.sample = <<level, 0>>,
                            !.pos = st,
                            !.elapsed = IF st = 1 THEN duration ELSE 0,
                            !.calls = IF st = 1
                                      THEN ReleaseCalls(duration,
                                                        button_press_callback,
                                                        button_hold_callback)
                                      ELSE <<>>]

HandleButton ==
    \E level \in 0..1 :
        /\ HandleButtonCall(level)
        /\ UNCHANGED <<encVars, running, modeVars, cbVars, spinVars, lifeVars, now, run, cycle,
                       fold, actual>>

\* the button goes down: GPIO calls _handle_button, which reads 0
Press ==
    /\ actual.level = 1
    /\ actual' = [level |-> 0, pressed_at |-> now]
    /\ HandleButtonCall(0)
    /\ UNCHANGED <<encVars, running, modeVars, cbVars, spinVars, lifeVars, now, run, cycle,
                   fold>>

\* the button comes up: GPIO calls _handle_button, which reads 1
Release ==
    /\ actual.level = 0
    /\ actual' = [actual EXCEPT !.level = 1]
    /\ HandleButtonCall(1)
    /\ UNCHANGED <<encVars, running, modeVars, cbVars, spinVars, lifeVars, now, run, cycle,
                   fold>>

\* the monotonic clock advances while the button is watched
ButtonTick ==
    \E d \in ButtonTickSteps :
        /\ now + d <= MaxButtonTime
        /\ now' = now + d
        /\ last' = [NoCall EXCEPT !.op = "tick"]
        /\ UNCHANGED <<encVars, running, modeVars, cbVars, spinVars, btnVars, lifeVars,
                       run, cycle, button_level, fold, actual>>

----------------------------------------------------------------------------
(* The mode registry: add_mode, set_mode_handlers, set_mode, next_mode *)

\* the names modes are registered under, and a name never registered
Names == {"a", "b", "c"}
Unknown == "x"

\* mode_identifier: a str or an int
ByName(n) == [kind |-> "name", name |-> n, index |-> 0, mode |-> NoMode]
ByIndex(i) == [kind |-> "index", name |-> None, index |-> i, mode |-> NoMode]
Identifiers == {ByName(n) : n \in Names \cup {Unknown}} \cup {ByIndex(i) : i \in -1..3}

\* the handlers a mode is built or rebound with; the boost handlers default
\* to None
HandlerSets == {<<"up", "down", None, None>>,
                <<"left", "right", "left_fast", "right_fast">>}

\* mutant: every mode is at index 0
IndexOfFirst(order, n) == 0

\* mode_names.index(name), counted from 0
IndexOf(order, n) ==
    (CHOOSE i \in 1..Len(order) :
        order[i] = n /\ \A j \in 1..(i - 1) : order[j] # n) - 1

\* mutant: the index counted from 1
ResolveFromOne(id, ms, order) ==
    IF id.kind = "index"
    THEN (IF 1 <= id.index /\ id.index <= Len(order) THEN order[id.index] ELSE None)
    ELSE (IF id.name \in DOMAIN ms THEN id.name ELSE None)

\* the name mode_identifier stands for, None when it stands for no mode:
\* an int is an index into list(self.modes.keys()), anything else a key
Resolve(id, ms, order) ==
    IF id.kind = "index"
    THEN (IF 0 <= id.index /\ id.index < Len(order) THEN order[id.index + 1] ELSE None)
    ELSE (IF id.name \in DOMAIN ms THEN id.name ELSE None)

\* mutant: the first mode stays out of current_mode
CurrentAfterAddKept(cur, name) == cur

\* if self.current_mode is None: self.current_mode = mode_name
CurrentAfterAdd(cur, name) == IF cur = None THEN name ELSE cur

\* mutant: a registered name appended again
OrderAfterAddAppended(order, ms, name) == Append(order, name)

\* the keys of self.modes after self.modes[mode_name] = mode
OrderAfterAdd(order, ms, name) ==
    IF name \in DOMAIN ms THEN order ELSE Append(order, name)

\* the callback a mode change calls with the current mode, if it is set
ModeChangeCalls(cb, cur) == IF Truthy(cb) THEN <<Call(cb, <<cur>>)>> ELSE <<>>

AddMode ==
    \E n \in Names, h \in HandlerSets :
        LET mode == Mode(n, h[1], h[2], h[3], h[4])
        IN  /\ modes' = [k \in DOMAIN modes \cup {n} |->
                            IF k = n THEN mode ELSE modes[k]]
            /\ mode_order' = OrderAfterAdd(mode_order, modes, n)
            /\ current_mode' = CurrentAfterAdd(current_mode, n)
            /\ last' = [NoCall EXCEPT
                           !.op = "add_mode", !.ran = TRUE,
                           !.arg = [kind |-> "mode", name |-> n, index |-> 0,
                                    mode |-> mode]]
            /\ cycle' = NoCycle
            /\ UNCHANGED <<encVars, running, mode_index, cbVars, spinVars, btnVars, lifeVars,
                           now, run, button_level, fold, actual>>

\* mutant: a boost handler left out keeps the one bound before
SetClockwiseHandlerKept(m, handler, boosthandler) ==
    [m EXCEPT !.clockwise_handler = handler,
              !.clockwise_boosthandler = IF boosthandler = None THEN @
                                         ELSE boosthandler]

\* EncoderMode.set_clockwise_handler
SetClockwiseHandler(m, handler, boosthandler) ==
    [m EXCEPT !.clockwise_handler = handler, !.clockwise_boosthandler = boosthandler]

\* mutant: the clockwise fields written
SetCounterclockwiseHandlerTypo(m, handler, boosthandler) ==
    [m EXCEPT !.clockwise_handler = handler, !.clockwise_boosthandler = boosthandler]

\* EncoderMode.set_counterclockwise_handler
SetCounterclockwiseHandler(m, handler, boosthandler) ==
    [m EXCEPT !.counterclockwise_handler = handler,
              !.counterclockwise_boosthandler = boosthandler]

SetModeHandlers ==
    \E id \in Identifiers, h \in HandlerSets :
        LET target == Resolve(id, modes, mode_order)
        IN  /\ modes' = IF target = None
                        THEN modes
                        ELSE [modes EXCEPT ![target] =
                                SetCounterclockwiseHandler(
                                    SetClockwiseHandler(@, h[1], h[3]), h[2], h[4])]
            /\ last' = [NoCall EXCEPT
                           !.op = "set_mode_handlers", !.ran = TRUE,
                           !.arg = [id EXCEPT
                                      !.mode = Mode(None, h[1], h[2], h[3], h[4])]]
            /\ cycle' = NoCycle
            /\ UNCHANGED <<encVars, running, mode_order, current_mode, mode_index,
                           cbVars, spinVars, btnVars, lifeVars, now, run,
                             button_level, fold, actual>>

SetMode ==
    \E id \in Identifiers :
        LET target == Resolve(id, modes, mode_order)
        IN  /\ current_mode' = IF target = None THEN current_mode ELSE target
            /\ mode_index' = IF target = None THEN mode_index
                             ELSE IF id.kind = "index" THEN id.index
                             ELSE IndexOf(mode_order, target)
            /\ last' = [NoCall EXCEPT
                           !.op = "set_mode", !.ran = TRUE, !.arg = id,
                           !.calls = ModeChangeCalls(mode_change_callback,
                                                     current_mode')]
            /\ cycle' = NoCycle
            /\ UNCHANGED <<encVars, running, modes, mode_order, cbVars, spinVars, btnVars,
                           lifeVars, now, run, button_level, fold, actual>>

\* mutant: the index not advanced
NextIndexStuck(i, n) == i % n

\* (self.mode_index + 1) % len(mode_names)
NextIndex(i, n) == (i + 1) % n

\* cycle counts the next_mode calls made in a row and keeps the mode they
\* started from
NextMode ==
    /\ cycle.n < MaxCycle
    /\ IF Len(mode_order) > 0
       THEN /\ mode_index' = NextIndex(mode_index, Len(mode_order))
            /\ current_mode' = mode_order[mode_index' + 1]
            /\ last' = [NoCall EXCEPT
                           !.op = "next_mode", !.ran = TRUE,
                           !.calls = ModeChangeCalls(mode_change_callback,
                                                     current_mode')]
       ELSE /\ last' = [NoCall EXCEPT !.op = "next_mode", !.ran = TRUE]
            /\ UNCHANGED <<current_mode, mode_index>>
    /\ cycle' = IF cycle.n = 0 THEN [start |-> current_mode, n |-> 1]
                ELSE [cycle EXCEPT !.n = @ + 1]
    /\ UNCHANGED <<encVars, running, modes, mode_order, cbVars, spinVars, btnVars, lifeVars,
                   now, run, button_level, fold, actual>>

----------------------------------------------------------------------------
(* EncoderHandler.start and the worker thread *)

\* mutant: a worker started whatever the flag says
StartsWorkerAlways(isRunning) == TRUE

\* if self.running: return
StartsWorker(isRunning) == ~isRunning

\* start(): a second call while running returns at once; otherwise the flag
\* is set, the event cleared and a new worker thread created and started
Start ==
    /\ running \/ Len(workers) < MaxWorkers
    /\ IF StartsWorker(running)
       THEN /\ running' = TRUE
            /\ stop_event' = FALSE
            /\ workers' = Append(workers, "setup")
            /\ thread' = Len(workers) + 1
            /\ last' = [NoCall EXCEPT !.op = "start", !.ran = TRUE]
       ELSE /\ last' = [NoCall EXCEPT !.op = "start"]
            /\ UNCHANGED <<running, stop_event, workers, thread>>
    /\ UNCHANGED <<encVars, modeVars, cbVars, spinVars, btnVars, use_gpio, detect,
                   callback, now, run, cycle, button_level, fold, actual>>

\* the pins _setup_gpio adds event detection to, in this order
Pins == <<"a", "b", "button">>

\* the pins that have their callback when the k + 1-th add_event_detect raises
Detected(k) == {Pins[n] : n \in 1..k}

\* _worker, _setup_gpio up to the last add_event_detect: the three callbacks
\* are registered, or one of the calls raises (GPIO.setmode, GPIO.setup and
\* the first add_event_detect with no callback registered, the second with
\* one, the third with two) and _worker clears use_gpio; without use_gpio
\* nothing is set up
WorkerSetup ==
    \E i \in 1..Len(workers) :
        /\ workers[i] = "setup"
        /\ IF use_gpio
           THEN \/ /\ detect' = detect \cup Detected(3)
                   /\ workers' = [workers EXCEPT ![i] = "init"]
                   /\ last' = [NoCall EXCEPT !.op = "worker", !.ran = TRUE,
                                  !.calls = <<Call("_setup_gpio", <<>>)>>]
                   /\ UNCHANGED use_gpio
                \/ \E k \in 0..2 :
                     /\ detect' = detect \cup Detected(k)
                     /\ use_gpio' = FALSE
                     /\ workers' = [workers EXCEPT ![i] = "wait"]
                     /\ last' = [NoCall EXCEPT !.op = "worker",
                                    !.calls = <<Call("_setup_gpio", <<>>)>>]
           ELSE /\ workers' = [workers EXCEPT ![i] = "wait"]
                /\ last' = [NoCall EXCEPT !.op = "worker"]
                /\ UNCHANGED <<use_gpio, detect>>
        /\ UNCHANGED <<encVars, running, modeVars, cbVars, spinVars, btnVars, stop_event,
                       thread, callback, now, run, cycle, button_level, fold,
                       actual>>

\* the last statement of _setup_gpio, run by the worker thread when the
\* callbacks are registered already: the two pins read into last_state; the
\* observer starts from this register unless a sample was processed before
WorkerInit ==
    \E i \in 1..Len(workers), a \in 0..1, b \in 0..1 :
        /\ workers[i] = "init"
        /\ last_state' = (a * 2) + b
        /\ fold' = IF fold.any THEN fold ELSE [fold EXCEPT !.reg = (a * 2) + b]
        /\ workers' = [workers EXCEPT ![i] = "wait"]
        /\ last' = [NoCall EXCEPT !.op = "worker", !.ran = TRUE,
                       !.sample = <<a, b>>]
        /\ UNCHANGED <<encoder_position, encoder_last_time, running, modeVars,
                       cbVars, spinVars, btnVars, use_gpio, stop_event, thread, detect,
                       callback, now, run, cycle, button_level, actual>>

\* stop_event.wait(): returns at once when the event is set, blocks otherwise
WorkerWait ==
    \E i \in 1..Len(workers) :
        /\ workers[i] = "wait"
        /\ workers' = [workers EXCEPT ![i] = IF stop_event THEN "cleanup"
                                             ELSE "blocked"]
        /\ last' = [NoCall EXCEPT !.op = "worker"]
        /\ UNCHANGED <<encVars, running, modeVars, cbVars, spinVars, btnVars, use_gpio,
                       stop_event, thread, detect, callback, now, run, cycle,
                       button_level, fold, actual>>

\* _worker after the wait: if use_gpio, _cleanup_gpio removes the event
\* detection of the three pins; then the thread ends
WorkerCleanup ==
    \E i \in 1..Len(workers) :
        /\ workers[i] = "cleanup"
        /\ workers' = [workers EXCEPT ![i] = "done"]
        /\ IF use_gpio
           THEN /\ detect' = {}
                /\ last' = [NoCall EXCEPT !.op = "worker", !.ran = TRUE,
                               !.calls = <<Call("_cleanup_gpio", <<>>)>>]
           ELSE /\ last' = [NoCall EXCEPT !.op = "worker"]
                /\ UNCHANGED detect
        /\ UNCHANGED <<encVars, running, modeVars, cbVars, spinVars, btnVars, use_gpio,
                       stop_event, thread, callback, now, run, cycle,
                       button_level, fold, actual>>

\* GPIO calls _handle_encoder on an edge of pin A or pin B while that pin
\* has event detection
EdgeEncoder ==
    /\ detect \cap {"a", "b"} # {}
    /\ \E a \in 0..1, b \in 0..1 : HandleEncoderCall(a, b, 0)
    /\ UNCHANGED <<running, modeVars, cbVars, spinVars, btnVars, lifeVars, run, cycle,
                   button_level, actual>>

\* the callback thread enters _handle_encoder and checks the flag: it
\* returns at once, or goes on to read the pins
EdgeEncoderCheck ==
    /\ callback = "idle"
    /\ detect \cap {"a", "b"} # {}
    /\ IF Ignores(running)
       THEN /\ last' = [NoCall EXCEPT !.op = "handle_encoder"]
            /\ UNCHANGED callback
       ELSE /\ last' = [NoCall EXCEPT !.op = "callback"]
            /\ callback' = "encoder"
    /\ UNCHANGED <<encVars, running, modeVars, cbVars, spinVars, btnVars, use_gpio,
                   stop_event, thread, workers, detect, now, run, cycle,
                   button_level, fold, actual>>

\* the callback thread runs the rest of _handle_encoder, whatever the other
\* threads did to the flag since the check
EdgeEncoderBody ==
    /\ callback = "encoder"
    /\ callback' = "idle"
    /\ \E a \in 0..1, b \in 0..1 : HandleEncoderBody(a, b, 0)
    /\ UNCHANGED <<running, modeVars, cbVars, spinVars, btnVars, use_gpio, stop_event,
                   thread, workers, detect, run, cycle, button_level, actual>>

\* GPIO calls _handle_button on an edge of the button pin
EdgeButton ==
    /\ "button" \in detect
    /\ HandleButton

\* _handle_encoder while mode handlers may raise and leave the accumulator
\* beyond the threshold
HandleEncoderFaulty ==
    /\ Abs(encoder_position) < MaxPosition
    /\ HandleEncoder

\* start() on a handler that has had no worker yet, or that is running
StartOnce ==
    /\ running \/ workers = <<>>
    /\ Start

----------------------------------------------------------------------------
(* SpinEntry (ks_includes/widgets/spinentry.py) *)

\* the characters of a decimal numeral
Digits == <<"0", "1", "2", "3", "4", "5", "6", "7", "8", "9">>
IsDigit(c) == \E d \in 1..10 : Digits[d] = c
DigitOf(c) == (CHOOSE d \in 1..10 : Digits[d] = c) - 1

\* str(n) of an int
RECURSIVE StrNat(_)
StrNat(n) ==
    IF n < 10 THEN <<Digits[n + 1]>>
    ELSE StrNat(n \div 10) \o <<Digits[(n % 10) + 1]>>
Str(n) == IF n < 0 THEN <<"-">> \o StrNat(-n) ELSE StrNat(n)

\* int(text): an optional sign, then one digit or more; anything else raises
\* ValueError
Unsigned(t) == IF t # <<>> /\ t[1] \in {"+", "-"} THEN Tail(t) ELSE t
Parses(t) == Unsigned(t) # <<>> /\ \A i \in 1..Len(Unsigned(t)) : IsDigit(Unsigned(t)[i])
RECURSIVE NatOf(_)
NatOf(ds) ==
    IF ds = <<>> THEN 0
    ELSE (NatOf(SubSeq(ds, 1, Len(ds) - 1)) * 10) + DigitOf(ds[Len(ds)])
IntOf(t) == IF t[1] = "-" THEN -NatOf(Unsigned(t)) ELSE NatOf(Unsigned(t))

\* mutant: only the lower end enforced
ClampLow(v, lo, hi) == Max(lo, v)

\* max(self.min_val, min(self.max_val, new_value))
Clamp(v, lo, hi) == Max(lo, Min(hi, v))

\* on_text_changed with a text that int() takes: the number is stored when it
\* is in the range
OnNumber(v, t, lo, hi) ==
    [value |-> IF lo <= IntOf(t) /\ IntOf(t) <= hi THEN IntOf(t) ELSE v,
     text  |-> t]

\* on_text_changed, run by the "changed" signal when the text is t: _value and
\* the text it leaves; on ValueError set_text(str(self._value)) changes the
\* text and so runs the handler once more
OnTextChanged(v, t, lo, hi) ==
    IF t = <<>> THEN [value |-> v, text |-> t]
    ELSE IF Parses(t) THEN OnNumber(v, t, lo, hi)
    ELSE OnNumber(v, Str(v), lo, hi)

\* the setter of SpinEntry.value: the number clamped and stored, and set_text
\* with its "changed" signal
ValueSetter(new_value, lo, hi) ==
    LET v == Clamp(new_value, lo, hi)
    IN  OnTextChanged(v, Str(v), lo, hi)

\* mutant: Return always asks for the arrow mode
ReturnRequestArrow(active) == "encoder_arrow_mode"

\* the method of self.screen the Return key calls
ReturnRequest(active) ==
    IF active THEN "encoder_focus_mode" ELSE "encoder_arrow_mode"

\* the ranges set_range is called with, the last one with its ends swapped
Ranges == {<<0, 10>>, <<-5, 5>>, <<3, 3>>, <<12, 20>>, <<6, 2>>}
\* the steps a widget is built with
Steps == {1, 4}
PageStep == 10
\* the numbers assigned to value
Assigned == {-7, 0, 5, 25}
\* the texts the user types
Edits == {<<>>, <<"5">>, <<"0", "7">>, <<"-", "3">>, <<"+", "4">>,
          <<"1", "5", "0">>, <<"-">>, <<"a", "b">>, <<"1", "x">>}
\* the keys pressed
Keys == {"Return", "Up", "Down", "Page_Up", "Page_Down", "Tab"}

\* SpinEntry.__init__
SpinEntry(lo, hi, st, pg, initial_value) ==
    /\ min_val = lo
    /\ max_val = hi
    /\ step = st
    /\ page_step = pg
    /\ value = initial_value
    /\ is_active = FALSE
    /\ text = Str(initial_value)
    /\ screen = None
    /\ typed = <<>>

\* what the steps of the widget leave alone
handlerVars == <<encVars, running, modeVars, cbVars, btnVars, lifeVars, now, run,
                 cycle, button_level, fold, actual>>

\* a step of the widget: the call and what it asked the screen for
SpinCall(op, requests) ==
    [NoCall EXCEPT !.op = op, !.ran = TRUE,
                   !.calls = [i \in 1..Len(requests) |-> Call(requests[i], <<>>)]]

\* the value setter run with new_value by the step op
Assign(op, new_value) ==
    LET after == ValueSetter(new_value, min_val, max_val)
    IN  /\ value' = after.value
        /\ text' = after.text
        /\ typed' = <<>>
        /\ last' = SpinCall(op, <<>>)
        /\ UNCHANGED <<min_val, max_val, step, page_step, is_active, screen,
                       handlerVars>>

\* SpinEntry.on_key_press
OnKeyPress ==
    \E keyname \in Keys :
        CASE keyname = "Return" ->
               /\ is_active' = ~is_active
               /\ screen' = ReturnRequest(is_active)
               /\ typed' = <<>>
               /\ last' = SpinCall("Return", <<ReturnRequest(is_active)>>)
               /\ UNCHANGED <<min_val, max_val, step, page_step, value, text,
                              handlerVars>>
          [] keyname = "Up" -> Assign("Up", value - step)
          [] keyname = "Down" -> Assign("Down", value + step)
          [] keyname = "Page_Up" -> Assign("Page_Up", value - page_step)
          [] keyname = "Page_Down" -> Assign("Page_Down", value + page_step)
          [] OTHER ->
               /\ last' = [NoCall EXCEPT !.op = keyname]
               /\ typed' = <<>>
               /\ UNCHANGED <<min_val, max_val, step, page_step, value, text,
                              is_active, screen, handlerVars>>

\* spin.value = new_value
SetValueProperty == \E new_value \in Assigned : Assign("value", new_value)

\* SpinEntry.set_value
SetValue == \E new_value \in Assigned : Assign("set_value", new_value)

\* SpinEntry.set_range
SetRange ==
    \E r \in Ranges :
        LET after == ValueSetter(value, r[1], r[2])
        IN  /\ min_val' = r[1]
            /\ max_val' = r[2]
            /\ value' = after.value
            /\ text' = after.text
            /\ typed' = <<>>
            /\ last' = SpinCall("set_range", <<>>)
            /\ UNCHANGED <<step, page_step, is_active, screen, handlerVars>>

\* the user replaces the text of the entry: the "changed" signal runs
\* on_text_changed
TextEdit ==
    \E t \in Edits :
        LET after == OnTextChanged(value, t, min_val, max_val)
        IN  /\ value' = after.value
            /\ text' = after.text
            /\ typed' = t
            /\ last' = SpinCall("text_edit", <<>>)
            /\ UNCHANGED <<min_val, max_val, step, page_step, is_active, screen,
                           handlerVars>>

\* SpinEntry.on_focus_out
OnFocusOut ==
    LET after == OnTextChanged(value, text, min_val, max_val)
    IN  /\ is_active' = FALSE
        /\ screen' = "encoder_focus_mode"
        /\ value' = after.value
        /\ text' = after.text
        /\ typed' = <<>>
        /\ last' = SpinCall("focus_out", <<"encoder_focus_mode">>)
        /\ UNCHANGED <<min_val, max_val, step, page_step, handlerVars>>

----------------------------------------------------------------------------
(* Initial states *)
AllModes(name) ==
    {Mode(name, cw, ccw, cwb, ccwb) :
        cw \in {None, "up"}, ccw \in {None, "down"},
        cwb \in {None, "up_fast"}, ccwb \in {None, "down_fast"}}

\* the callbacks set with set_rotation_callback, set_button_press_callback,
\* set_button_hold_callback and set_mode_change_callback (None: not set)
Callbacks(rotation, press, hold, change) ==
    [rotation |-> rotation, press |-> press, hold |-> hold, change |-> change]

\* the handler after __init__, add_mode of the modes ms (a function from names
\* to modes, registered in the order names) and the set_*_callback calls cbs,
\* with the register at reg, the accumulator at pos, t ms after construction;
\* when isRunning, after start() and a _setup_gpio that succeeded as well
Constructed(names, ms, cbs, reg, pos, t, isRunning) ==
    /\ last_state = reg
    /\ encoder_position = pos
    /\ encoder_last_time = 0
    /\ now = t
    /\ running = isRunning
    /\ modes = ms
    /\ mode_order = names
    /\ current_mode = (IF names = <<>> THEN None ELSE names[1])
    /\ mode_index = 0
    /\ rotation_callback = cbs.rotation
    /\ button_press_callback = cbs.press
    /\ button_hold_callback = cbs.hold
    /\ mode_change_callback = cbs.change
    /\ last_button_state = 1
    /\ button_press_time = 0
    /\ use_gpio = TRUE
    /\ stop_event = FALSE
    /\ thread = (IF isRunning THEN 1 ELSE 0)
    /\ workers = (IF isRunning THEN <<"wait">> ELSE <<>>)
    /\ last = NoCall
    /\ run = NoRun
    /\ cycle = NoCycle
    /\ detect = (IF isRunning THEN Detected(3) ELSE {})
    /\ callback = "idle"
    /\ button_level = 1
    /\ fold = [reg |-> reg, pos |-> pos, any |-> FALSE]
    /\ actual = [level |-> 1, pressed_at |-> 0]

\* the handler, and a SpinEntry built with its defaults
HandlerWith(names, ms, cbs, reg, pos, t, isRunning) ==
    /\ Constructed(names, ms, cbs, reg, pos, t, isRunning)
    /\ SpinEntry(0, 100, 1, 10, 0)

Handler(names, ms, cb, reg, pos, t, isRunning) ==
    HandlerWith(names, ms, Callbacks(cb, None, None, None), reg, pos, t, isRunning)

\* a registry holding the one mode m
Registry(m) == [n \in {m.name} |-> m]
NoModes == [n \in {} |-> None]

FullMode == Mode("volume", "up", "down", "up_fast", "down_fast")

\* start() and _setup_gpio done: running, the register holds the pin levels
InitEnc ==
    \E a \in 0..1, b \in 0..1, cb \in {None, "on_rotation"}, withMode \in BOOLEAN :
        IF withMode
        THEN Handler(<<"volume">>, Registry(FullMode), cb, (a * 2) + b, 0, 0, TRUE)
        ELSE Handler(<<>>, NoModes, cb, (a * 2) + b, 0, 0, TRUE)

NextEnc == HandleEncoder \/ Tick \/ Stop

SpecEnc == InitEnc /\ [][NextEnc]_vars

\* the elapsed times at which the curve is sampled: both ends of the clamp,
\* each millisecond at which the count changes and the one after it
CurveTimes ==
    {0, 50, 51, 100, 250, 499, 500, 501, MaxTime}
        \cup {CurveBreaks[k] + d : k \in 1..Len(CurveBreaks), d \in 0..1}

\* one step short of a burst in either direction, t ms after the previous one
InitCurve ==
    \E reg \in 0..3, pos \in {3, -3}, t \in CurveTimes :
        Handler(<<"volume">>, Registry(FullMode), "on_rotation", reg, pos, t, TRUE)

SpecCurve == InitCurve /\ [][HandleEncoder]_vars

\* elapsed times of a boosted burst (raw count 10 and 6) and of a plain one (3)
ElapsedSamples == {0, 100, 250}

\* one step short of a burst, for every binding of the four handlers
InitDispatch ==
    \E reg \in {0, 3}, pos \in {3, -3}, t \in ElapsedSamples,
       m \in AllModes("volume"), cb \in {None, "on_rotation"} :
        Handler(<<"volume">>, Registry(m), cb, reg, pos, t, TRUE)

SpecDispatch == InitDispatch /\ [][HandleEncoder]_vars

\* a started handler with a mode and a rotation callback, accumulator at 0
InitRun ==
    \E a \in 0..1, b \in 0..1 :
        Handler(<<"volume">>, Registry(FullMode), "on_rotation", (a * 2) + b, 0, 0, TRUE)

SpecRun == InitRun /\ [][HandleEncoderObserved]_vars

\* a started handler with any of the two button callbacks set
InitButton ==
    \E press \in {None, "on_press"}, hold \in {None, "on_hold"} :
        HandlerWith(<<>>, NoModes, Callbacks(None, press, hold, None), 3, 0, 0, TRUE)

NextButton == HandleButton \/ ButtonTick \/ Stop

SpecButton == InitButton /\ [][NextButton]_vars

\* a constructed handler with no mode registered
InitModes ==
    \E change \in {None, "on_mode_change"} :
        HandlerWith(<<>>, NoModes, Callbacks(None, None, None, change), 0, 0, 0, FALSE)

NextModes == AddMode \/ SetModeHandlers \/ SetMode \/ NextMode

SpecModes == InitModes /\ [][NextModes]_vars

\* a constructed handler, never started
InitLife ==
    HandlerWith(<<>>, NoModes, Callbacks(None, None, None, None), 0, 0, 0, FALSE)

NextLife ==
    Start \/ Stop \/ WorkerSetup \/ WorkerInit \/ WorkerWait \/ WorkerCleanup

SpecLife == InitLife /\ [][NextLife]_vars

\* a worker thread that can take a step is scheduled in the end; nothing
\* makes the caller call start() or stop() again
WorkersRun ==
    /\ WF_vars(WorkerSetup) /\ WF_vars(WorkerInit)
    /\ WF_vars(WorkerWait) /\ WF_vars(WorkerCleanup)

SpecLifeFair == SpecLife /\ WorkersRun

\* a constructed handler with a mode and every callback set, never started
InitGpio ==
    HandlerWith(<<"volume">>, Registry(FullMode),
                Callbacks("on_rotation", "on_press", "on_hold", None), 0, 0, 0, FALSE)

NextGpio ==
    \/ StartOnce \/ Stop
    \/ WorkerSetup \/ WorkerInit \/ WorkerWait \/ WorkerCleanup
    \/ EdgeEncoder \/ EdgeButton

SpecGpio == InitGpio /\ [][NextGpio]_vars

\* the worker of the first start() sets the pins up while edges arrive
NextRace == StartOnce \/ WorkerSetup \/ WorkerInit \/ EdgeEncoder

SpecRace == InitGpio /\ [][NextRace]_vars

\* a started handler whose mode has a base or a boost handler that raises,
\* for either direction
InitFault ==
    \E cw \in {"up", "boom"}, ccw \in {"down", "boom"},
       fast \in {None, "up_fast", "boom_fast"} :
        Handler(<<"volume">>, Registry(Mode("volume", cw, ccw, fast, None)),
                "on_rotation", 3, 0, 0, TRUE)

NextFault == HandleEncoderFaulty \/ Tick

SpecFault == InitFault /\ [][NextFault]_vars

\* a started handler with any register and any accumulator below the
\* threshold
InitSample ==
    \E reg \in 0..15, pos \in -3..3 :
        Handler(<<"volume">>, Registry(FullMode), "on_rotation", reg, pos, 0, TRUE)

SpecSample == InitSample /\ [][EdgeEncoder]_vars

\* a constructed handler with both button callbacks set, the button up
InitPress ==
    HandlerWith(<<>>, NoModes, Callbacks(None, "on_press", "on_hold", None),
                0, 0, 0, FALSE)

NextPress == Start \/ Stop \/ Press \/ Release \/ ButtonTick

SpecPress == InitPress /\ [][NextPress]_vars

NextStop ==
    \/ StartOnce \/ Stop \/ WorkerSetup \/ WorkerInit
    \/ EdgeEncoderCheck \/ EdgeEncoderBody

\* the application thread starts the handler once and stops it while the
\* worker sets up and the callback thread delivers edges of the encoder
SpecStop == InitGpio /\ [][NextStop]_vars

\* a started handler whose mode has its four handlers bound
InitRebind ==
    Handler(<<"volume">>, Registry(FullMode), "on_rotation", 3, 0, 0, TRUE)

NextRebind == SetModeHandlers \/ HandleEncoder

\* the handlers of the mode are rebound between the bursts
SpecRebind == InitRebind /\ [][NextRebind]_vars

\* a widget built with a range, a step and an initial value in the range,
\* next to a handler that is never started
InitSpin ==
    /\ Constructed(<<>>, NoModes, Callbacks(None, None, None, None), 0, 0, 0, FALSE)
    /\ \E r \in {<<0, 10>>, <<-5, 5>>}, st \in Steps, initial_value \in {0, 5} :
          SpinEntry(r[1], r[2], st, PageStep, initial_value)

NextSpin ==
    OnKeyPress \/ SetValueProperty \/ SetValue \/ SetRange \/ TextEdit \/ OnFocusOut

SpecSpin == InitSpin /\ [][NextSpin]_vars

----------------------------------------------------------------------------
(* Properties *)

\* the step just taken was a _handle_encoder call that passed the running check
Decoded(l) == l.op = "handle_encoder" /\ l.ran

\* the handle_clockwise / handle_counterclockwise calls among calls
HandleCalls(calls) ==
    SelectSeq(calls, LAMBDA e : e.fn \in {"handle_clockwise", "handle_counterclockwise"})

\* C1: a running _handle_encoder call computes
\* state = ((last_state << 2) | (A << 1) | B) & 0xF, moves the accumulator by
\* +1 iff state is 1101, 0100, 0010 or 1011, by -1 iff it is 1110, 1000, 0001
\* or 0111 and by 0 for the eight other values, and always stores state in
\* the register.
C1_DecoderStep ==
    [][Decoded(last') =>
        LET state == ((last_state % 4) * 4) + (last'.sample[1] * 2) + last'.sample[2]
            delta == last'.pos - encoder_position
        IN  /\ last_state' = state
            /\ delta \in {-1, 0, 1}
            /\ delta = 1 <=> state \in {13, 4, 2, 11}
            /\ delta = -1 <=> state \in {14, 8, 1, 7}]_vars

\* a counterclockwise step (01 -> 11) has been decoded after another one
C1_Witness ==
    Decoded(last) /\ last_state = 7 /\ last.sample = <<1, 1>> /\ encoder_position = -2

\* C2: with a current mode, a call that brings |encoder_position| to 4 makes
\* exactly one handle_clockwise / handle_counterclockwise call and resets the
\* accumulator, a call that leaves it below 4 makes none, and after every
\* call the accumulator is in -3..3.
C2_OneGesturePerBurst ==
    /\ encoder_position \in -3..3
    /\ (Decoded(last) /\ HasCurrentMode(current_mode, modes)) =>
          IF Abs(last.pos) >= 4
          THEN Len(HandleCalls(last.calls)) = 1 /\ encoder_position = 0
          ELSE last.calls = <<>> /\ encoder_position = last.pos

\* a burst has been dispatched to the current mode
C2_Witness ==
    /\ Decoded(last) /\ Abs(last.pos) = 4 /\ encoder_position = 0
    /\ Len(HandleCalls(last.calls)) = 1

\* C4: the direction of a burst is the sign of the accumulator when the
\* threshold is reached: handle_clockwise iff it is positive,
\* handle_counterclockwise iff it is negative.
C4_DirectionIsSign ==
    (Decoded(last) /\ last.burst /\ HasCurrentMode(current_mode, modes)) =>
        /\ Len(HandleCalls(last.calls)) = 1
        /\ HandleCalls(last.calls)[1].fn = "handle_clockwise" <=> last.pos > 0
        /\ HandleCalls(last.calls)[1].fn = "handle_counterclockwise" <=> last.pos < 0

\* a counterclockwise burst has been dispatched
C4_Witness ==
    /\ Decoded(last) /\ last.burst /\ last.pos = -4
    /\ Len(last.calls) > 0 /\ last.calls[1].fn = "handle_counterclockwise"

\* C5: encoder_position is reset to 0 and encoder_last_time is set to the
\* clock in exactly the _handle_encoder calls that reach the threshold; no
\* other step changes encoder_last_time, and the elapsed time of a burst is
\* the clock minus that timestamp.
C5_ResetOnlyAtBurst ==
    [][IF Decoded(last') /\ Abs(last'.pos) >= 4
       THEN /\ encoder_position' = 0
            /\ encoder_last_time' = now'
            /\ last'.elapsed = now - encoder_last_time
       ELSE /\ encoder_last_time' = encoder_last_time
            /\ encoder_position' = (IF Decoded(last') THEN last'.pos
                                     ELSE encoder_position)]_vars

\* a burst classified by the 300 ms since the timestamp was last set
C5_Witness ==
    /\ Decoded(last) /\ last.burst
    /\ last.elapsed = 300 /\ encoder_last_time = 600 /\ encoder_position = 0

\* C3 as stated: whatever the accumulator held when the run began, 4N
\* clockwise steps have produced N bursts reported clockwise and none
\* reported counterclockwise.
C3_AnyStart ==
    run.steps % 4 = 0 => (run.cw = run.steps \div 4 /\ run.ccw = 0)

\* C3: a run of 4N clockwise single steps that began with the accumulator at
\* 0 or above has produced N bursts reported clockwise and none reported
\* counterclockwise.
C3_DetentsFromNonNegative ==
    (run.start >= 0 /\ run.steps % 4 = 0) =>
        (run.cw = run.steps \div 4 /\ run.ccw = 0)

\* three full clockwise detents from an accumulator of 0, three bursts
C3_Witness ==
    run.start = 0 /\ run.steps = 12 /\ run.cw = 3 /\ run.ccw = 0

\* the arguments (boost, repeatcount) of the burst's handle_* call
GestureArgs(l) == HandleCalls(l.calls)[1].args

\* C6: the raw count is 10 up to 0.05 s and 1 from 0.5 s on; between them it
\* is int(2.223 * (-ln(elapsed)) ** 1.4 - 0.329), which is int(6.82) at 0.1 s,
\* int(3.999) at 0.2 s and int(3.18) at 0.25 s; exactly 0.05 s gives 10,
\* boosted and halved to 5, exactly 0.5 s gives 1, not boosted; and the raw
\* count of no longer elapsed time is greater.
C6_RawCountCurve ==
    (Decoded(last) /\ last.burst) =>
        /\ last.elapsed <= 50 => last.raw = 10
        /\ last.elapsed >= 500 => last.raw = 1
        /\ (last.elapsed > 50 /\ last.elapsed < 500) => last.raw \in 1..9
        /\ last.elapsed = 100 => last.raw = 6
        /\ last.elapsed = 200 => last.raw = 3
        /\ last.elapsed = 250 => last.raw = 3
        /\ last.elapsed = 50 => GestureArgs(last) = <<TRUE, 5>>
        /\ last.elapsed = 500 => GestureArgs(last) = <<FALSE, 1>>
        /\ \A e \in last.elapsed..MaxTime : RawCount(Speed(e, 0)) <= last.raw

\* a burst exactly 0.05 s after the previous one
C6_Witness ==
    /\ Decoded(last) /\ last.burst /\ last.elapsed = 50 /\ last.raw = 10
    /\ GestureArgs(last) = <<TRUE, 5>>

\* C7: a raw count c above 5 is passed on boosted with c div 2, a raw count
\* of 5 or less not boosted and unchanged.
C7_BoostPolicy ==
    (Decoded(last) /\ last.burst) =>
        GestureArgs(last) = <<last.raw > 5,
                              IF last.raw > 5 THEN last.raw \div 2 ELSE last.raw>>

\* a raw count of 7 passed on as a boosted 3
C7_Witness ==
    Decoded(last) /\ last.burst /\ last.raw = 7 /\ GestureArgs(last) = <<TRUE, 3>>

\* C8: the repeat count passed to the mode is in 1..5, and in 3..5 when the
\* gesture is boosted.
C8_RepeatCountRange ==
    (Decoded(last) /\ last.burst) =>
        /\ GestureArgs(last)[2] \in 1..5
        /\ GestureArgs(last)[1] => GestureArgs(last)[2] \in 3..5

\* the slowest burst carries a repeat count of 1
C8_Witness ==
    /\ Decoded(last) /\ last.burst /\ last.elapsed > 500
    /\ GestureArgs(last) = <<FALSE, 1>>

\* the handlers a mode can be bound to
HandlerNames == {"up", "down", "up_fast", "down_fast"}

\* the calls of mode handlers among calls
HandlerCalls(calls) == SelectSeq(calls, LAMBDA e : e.fn \in HandlerNames)

\* C9: the burst calls the boost handler of its direction iff it is boosted
\* and that handler is bound, otherwise the base handler of its direction;
\* the handler chosen is called exactly repeatcount times, right after the
\* handle_* call, and no other handler is called (none at all when the one
\* chosen is not bound).
C9_HandlerSelection ==
    (Decoded(last) /\ last.burst /\ HasCurrentMode(current_mode, modes)) =>
        LET m     == modes[current_mode]
            h     == HandleCalls(last.calls)[1]
            cw    == h.fn = "handle_clockwise"
            base  == IF cw THEN m.clockwise_handler ELSE m.counterclockwise_handler
            fast  == IF cw THEN m.clockwise_boosthandler
                     ELSE m.counterclockwise_boosthandler
            sel   == IF h.args[1] /\ fast # None THEN fast ELSE base
            n     == IF sel = None THEN 0 ELSE h.args[2]
            made  == HandlerCalls(last.calls)
        IN  /\ Len(made) = n
            /\ \A i \in 1..n : made[i] = Call(sel, <<>>)
            /\ SubSeq(last.calls, 2, n + 1) = made

\* a boosted clockwise burst ran the boost handler three times and the base
\* handler, which is bound too, not at all
C9_Witness ==
    /\ Decoded(last) /\ last.burst /\ HasCurrentMode(current_mode, modes)
    /\ modes[current_mode].clockwise_handler = "up"
    /\ HandlerCalls(last.calls) = <<Call("up_fast", <<>>), Call("up_fast", <<>>),
                                    Call("up_fast", <<>>)>>

\* C10: a dispatched burst calls the rotation callback, when one is set,
\* exactly once, as the last call of the burst, with <mode name>_clockwise
\* and clockwise or <mode name>_counterclockwise and counterclockwise.
C10_RotationCallbackOnce ==
    (Decoded(last) /\ last.burst /\ HasCurrentMode(current_mode, modes)) =>
        LET others == SelectSeq(last.calls,
                                LAMBDA e : /\ e.fn \notin HandlerNames
                                           /\ e.fn \notin {"handle_clockwise",
                                                           "handle_counterclockwise"})
            tag    == IF last.pos > 0 THEN "clockwise" ELSE "counterclockwise"
        IN  IF rotation_callback = None
            THEN others = <<>>
            ELSE /\ Len(others) = 1
                 /\ last.calls[Len(last.calls)] =
                        Call(rotation_callback, <<current_mode \o "_" \o tag, tag>>)

\* a counterclockwise burst of five repeats, then the one callback
C10_Witness ==
    /\ Decoded(last) /\ last.burst /\ last.pos = -4
    /\ Len(HandlerCalls(last.calls)) = 5 /\ Len(last.calls) = 7
    /\ last.calls[7].fn = "on_rotation"

\* C11: a burst that reaches the threshold while no current mode is set
\* (empty registry) calls no mode handler and no rotation callback, and still
\* resets the accumulator to 0 and sets encoder_last_time to the clock.
C11_BurstWithoutMode ==
    (Decoded(last) /\ last.burst /\ current_mode = None /\ DOMAIN modes = {}) =>
        /\ last.calls = <<>>
        /\ encoder_position = 0
        /\ encoder_last_time = now

\* a burst on an empty registry with a rotation callback set, 300 ms after
\* construction
C11_Witness ==
    /\ Decoded(last) /\ last.burst /\ current_mode = None /\ DOMAIN modes = {}
    /\ rotation_callback = "on_rotation" /\ last.elapsed = 300
    /\ encoder_position = 0 /\ encoder_last_time = now

\* the step just taken was a _handle_button call that passed the running check
Sampled(l) == l.op = "handle_button" /\ l.ran

C13_OneEventPerCycle ==
    [][Sampled(last') =>
        IF button_level = 0 /\ last'.sample[1] = 1
        THEN /\ Len(last'.calls) <= 1
             /\ \A i \in 1..Len(last'.calls) :
                    last'.calls[i].fn \in {button_press_callback, button_hold_callback}
                        \ {None}
             /\ (button_press_callback # None /\ button_hold_callback # None)
                    => Len(last'.calls) = 1
        ELSE last'.calls = <<>>]_vars

\* a second release, after a bounce of the pressed level, made its one call
C13_Witness ==
    /\ Sampled(last) /\ last.sample[1] = 1 /\ last_button_state = 1
    /\ Len(last.calls) = 1 /\ last.elapsed = 500 /\ button_press_time = 1000

\* the identifier stands for a registered mode: a key, or an index in range
ValidId(id) ==
    \/ id.kind = "name" /\ id.name \in DOMAIN modes
    \/ id.kind = "index" /\ id.index >= 0 /\ id.index <= Len(mode_order) - 1

\* the mode a valid identifier stands for
Named(id) == IF id.kind = "name" THEN id.name ELSE mode_order[id.index + 1]

\* the call a mode change makes when the callback is set
Notified(name) ==
    IF mode_change_callback = None THEN <<>>
    ELSE <<Call(mode_change_callback, <<name>>)>>

\* C14: after any sequence of add_mode, set_mode, next_mode and
\* set_mode_handlers calls, the mode registered first became current_mode
\* in its add_mode call, and current_mode is a key of modes, or None only
\* while modes is empty.
C14_CurrentModeRegistered ==
    [][/\ (current_mode' = None) => (DOMAIN modes' = {})
       /\ (current_mode' # None) => (current_mode' \in DOMAIN modes')
       /\ (last'.op = "add_mode" /\ DOMAIN modes = {}) =>
             /\ current_mode' = last'.arg.name
             /\ mode_order' = <<last'.arg.name>>
             /\ last'.calls = <<>>
       /\ (last'.op = "add_mode" /\ DOMAIN modes # {}) =>
             current_mode' = current_mode]_vars

\* the first add_mode made its mode current
C14_Witness ==
    /\ last.op = "add_mode" /\ last.arg.name = "b"
    /\ mode_order = <<"b">> /\ current_mode = "b" /\ mode_index = 0

\* C15: set_mode with an unknown name or an index outside 0..count-1 is a
\* no-op: current_mode and mode_index are unchanged and the mode-change
\* callback is not called.
C15_InvalidSetModeSilent ==
    [][(last'.op = "set_mode" /\ ~ValidId(last'.arg)) =>
          /\ current_mode' = current_mode
          /\ mode_index' = mode_index
          /\ last'.calls = <<>>]_vars

\* C16: set_mode with a registered name, or an index in 0..count-1, makes
\* that mode current with mode_index its insertion index (so a name and its
\* index lead to the same state) and then calls the mode-change callback
\* once with the new name.
C16_SetModeValid ==
    [][(last'.op = "set_mode" /\ ValidId(last'.arg)) =>
          /\ current_mode' = Named(last'.arg)
          /\ mode_index' >= 0 /\ mode_index' < Len(mode_order)
          /\ mode_order[mode_index' + 1] = Named(last'.arg)
          /\ (last'.arg.kind = "index") => (mode_index' = last'.arg.index)
          /\ last'.calls = Notified(Named(last'.arg))
          /\ modes' = modes /\ mode_order' = mode_order]_vars

\* set_mode("b") on a, b, c made b current at index 1 and reported it
C16_Witness ==
    /\ last.op = "set_mode" /\ last.arg.kind = "name" /\ last.arg.name = "b"
    /\ mode_order = <<"a", "b", "c">> /\ current_mode = "b" /\ mode_index = 1
    /\ last.calls = <<Call("on_mode_change", <<"b">>)>>

\* C17: next_mode on a non-empty registry moves to the mode at insertion
\* index (mode_index + 1) mod count and calls the mode-change callback once
\* with its name; count calls in a row return to the starting mode (a, b, c
\* from a: b, c, a); on an empty registry it changes nothing and calls
\* nothing.
C17_NextModeCycles ==
    [][(last'.op = "next_mode") =>
          IF mode_order = <<>>
          THEN /\ current_mode' = current_mode /\ mode_index' = mode_index
               /\ last'.calls = <<>>
          ELSE /\ mode_index' = (mode_index + 1) % Len(mode_order)
               /\ current_mode' = mode_order[mode_index' + 1]
               /\ last'.calls = Notified(current_mode')
               /\ (cycle'.n % Len(mode_order) = 0) => (current_mode' = cycle'.start)
               /\ (mode_order = <<"a", "b", "c">> /\ cycle'.start = "a") =>
                     current_mode' = <<"b", "c", "a">>[((cycle'.n - 1) % 3) + 1]]_vars

\* three next_mode calls from a on a, b, c are back at a
C17_Witness ==
    /\ last.op = "next_mode" /\ mode_order = <<"a", "b", "c">>
    /\ cycle = [start |-> "a", n |-> 3] /\ current_mode = "a" /\ mode_index = 0
    /\ last.calls = <<Call("on_mode_change", <<"a">>)>>

\* C18: set_mode_handlers with the name or index of a registered mode
\* rebinds the four handlers of that mode and leaves every other mode,
\* current_mode and mode_index unchanged; with an unknown name or an index
\* out of range it changes no mode.
C18_SetModeHandlersFrame ==
    [][(last'.op = "set_mode_handlers") =>
          LET id == last'.arg
              h  == last'.arg.mode
          IN  /\ current_mode' = current_mode /\ mode_index' = mode_index
              /\ mode_order' = mode_order /\ DOMAIN modes' = DOMAIN modes
              /\ last'.calls = <<>>
              /\ IF ValidId(id)
                 THEN \A k \in DOMAIN modes :
                        modes'[k] =
                            IF k = Named(id)
                            THEN [name |-> k,
                                  clockwise_handler |-> h.clockwise_handler,
                                  counterclockwise_handler |-> h.counterclockwise_handler,
                                  clockwise_boosthandler |-> h.clockwise_boosthandler,
                                  counterclockwise_boosthandler |->
                                      h.counterclockwise_boosthandler]
                            ELSE modes[k]
                 ELSE modes' = modes]_vars

\* mode b was rebound by its index while a stayed current with its handlers
C18_Witness ==
    /\ last.op = "set_mode_handlers" /\ last.arg.kind = "index" /\ last.arg.index = 1
    /\ mode_order = <<"a", "b">> /\ current_mode = "a"
    /\ modes["a"].clockwise_handler = "up"
    /\ modes["b"] = [name |-> "b", clockwise_handler |-> "left",
                     counterclockwise_handler |-> "right",
                     clockwise_boosthandler |-> "left_fast",
                     counterclockwise_boosthandler |-> "right_fast"]

\* C19: add_mode with a registered name replaces the stored mode object:
\* the number of modes, the insertion order, the other modes, current_mode
\* and mode_index are unchanged and no callback is called.
C19_AddModeOverwrites ==
    [][(last'.op = "add_mode" /\ last'.arg.name \in DOMAIN modes) =>
          /\ modes'[last'.arg.name] = last'.arg.mode
          /\ DOMAIN modes' = DOMAIN modes
          /\ \A k \in DOMAIN modes \ {last'.arg.name} : modes'[k] = modes[k]
          /\ mode_order' = mode_order /\ Len(mode_order') = Cardinality(DOMAIN modes')
          /\ current_mode' = current_mode /\ mode_index' = mode_index
          /\ last'.calls = <<>>]_vars

\* a was registered again with other handlers while b was current
C19_Witness ==
    /\ last.op = "add_mode" /\ last.arg.name = "a"
    /\ mode_order = <<"a", "b">> /\ current_mode = "b" /\ mode_index = 1
    /\ modes["a"].clockwise_handler = "left" /\ modes["b"].clockwise_handler = "up"

\* the fields of the handler and its worker threads
HandlerState ==
    <<encVars, running, modeVars, cbVars, btnVars, use_gpio, stop_event, thread,
      workers, detect>>

\* C20: start() and stop() are idempotent. start() while running creates no
\* worker and changes no field; stop() on a stopped handler (not running,
\* the event set) changes no field; so the second of two start() calls in a
\* row and the second of two stop() calls in a row change nothing. A start()
\* that takes effect leaves the handler running with one more worker, and
\* every stop() leaves it not running with the event set.
C20_StartStopIdempotent ==
    [][/\ (last'.op = "start" /\ running) => (HandlerState' = HandlerState)
       /\ (last'.op = "start" /\ ~running) =>
             /\ running' /\ ~stop_event'
             /\ Len(workers') = Len(workers) + 1
             /\ thread' = Len(workers')
       /\ (last'.op = "stop") =>
             /\ ~running' /\ stop_event'
             /\ Len(workers') = Len(workers) /\ thread' = thread
       /\ (last'.op = "stop" /\ ~running /\ stop_event) =>
             (HandlerState' = HandlerState)
       /\ (last'.op = "start" /\ last.op = "start") => (HandlerState' = HandlerState)
       /\ (last'.op = "stop" /\ last.op = "stop") => (HandlerState' = HandlerState)
      ]_vars

\* a second start() in a row, made on a handler stopped and restarted before,
\* left the two workers and the flag as they were
C20_Witness ==
    /\ last.op = "start" /\ ~last.ran
    /\ running /\ ~stop_event /\ Len(workers) = 2 /\ thread = 2

\* C21: after every stop() the worker started by the preceding start() ends
\* in the end, whatever the caller does next, a start() at once included.
C21_WorkerEndsAfterStop ==
    \A i \in 1..MaxWorkers :
        (last.op = "stop" /\ thread = i) ~> (Len(workers) >= i /\ workers[i] = "done")

\* C22: once a pin setup has raised (use_gpio cleared by the worker), no
\* pin cleanup is attempted and the core is a no-op: no call of
\* _handle_encoder or _handle_button invokes a mode handler, the rotation
\* callback or a button callback.
C22_SetupFaultDisables ==
    ~use_gpio =>
        /\ (last.op \in {"handle_encoder", "handle_button"}) => (last.calls = <<>>)
        /\ (last.op = "worker") => (\A k \in 1..Len(last.calls) :
                                        last.calls[k].fn # "_cleanup_gpio")

\* C23: each pin transition is processed to completion before the next is
\* accepted: after every processed _handle_encoder call the register and the
\* accumulator are what applying the processed samples one after another, in
\* arrival order, gives.
C23_SamplesInOrder ==
    (last.op = "handle_encoder" /\ last.ran) =>
        (last_state = fold.reg /\ encoder_position = fold.pos)

\* the handler a burst recorded in l runs on the current mode: the boost
\* handler of its direction if boosted and bound, else the base handler
Chosen(l) ==
    LET m    == modes[current_mode]
        base == IF l.pos > 0 THEN m.clockwise_handler ELSE m.counterclockwise_handler
        fast == IF l.pos > 0 THEN m.clockwise_boosthandler
                ELSE m.counterclockwise_boosthandler
    IN  IF l.raw > 5 /\ fast # None THEN fast ELSE base

\* C24: an exception raised by the mode handler a burst runs is not caught:
\* it leaves _handle_encoder, the handler has been called once and not again
\* whatever the repeat count, and the rotation callback is not called for
\* that burst; a burst whose handler returns ends with the rotation callback.
C24_HandlerFaultPropagates ==
    (Decoded(last) /\ last.burst /\ HasCurrentMode(current_mode, modes)) =>
        LET fn    == IF last.pos > 0 THEN "handle_clockwise"
                     ELSE "handle_counterclockwise"
            count == IF last.raw > 5 THEN last.raw \div 2 ELSE last.raw
        IN  IF Chosen(last) \in {"boom", "boom_fast"}
            THEN /\ last.raised
                 /\ last.calls = <<Call(fn, <<last.raw > 5, count>>),
                                   Call(Chosen(last), <<>>)>>
            ELSE /\ ~last.raised
                 /\ Len(last.calls) = count + 2
                 /\ last.calls[count + 2].fn = rotation_callback

\* a handler due for five repeats raised at its first call and the rotation
\* callback, though set, was not called
C24_Witness ==
    /\ Decoded(last) /\ last.burst /\ last.raised
    /\ rotation_callback = "on_rotation"
    /\ last.calls = <<Call("handle_clockwise", <<TRUE, 5>>), Call("boom_fast", <<>>)>>

\* C29 as stated: a burst whose handler raises leaves the accumulator at the
\* threshold and the timestamp as it was, and the next processed sample,
\* whatever its delta, dispatches again.
C29_NextSampleDispatches ==
    [][/\ (Decoded(last') /\ last'.raised) =>
             /\ encoder_position' = last'.pos /\ Abs(encoder_position') >= 4
             /\ encoder_last_time' = encoder_last_time
       /\ (Abs(encoder_position) >= 4 /\ Decoded(last')) => last'.burst]_vars

\* C29: a burst whose handler raises leaves the accumulator at or beyond the
\* threshold and the timestamp as it was; the next processed sample
\* dispatches again when its delta is 0 or has the sign of the accumulator,
\* and whenever the accumulator is beyond 4; only a step in the other
\* direction from exactly 4 or -4 brings it to 3 or -3 and dispatches nothing.
C29_FaultKeepsBurst ==
    [][/\ (Decoded(last') /\ last'.raised) =>
             /\ encoder_position' = last'.pos /\ Abs(encoder_position') >= 4
             /\ encoder_last_time' = encoder_last_time
       /\ (Abs(encoder_position) >= 4 /\ Decoded(last')) =>
             LET delta == last'.pos - encoder_position
             IN  /\ (delta = 0 \/ delta * encoder_position > 0 \/ Abs(encoder_position) > 4)
                        => (last'.burst /\ Len(last'.calls) >= 2)
                 /\ (delta * encoder_position < 0 /\ Abs(encoder_position) = 4)
                        => (~last'.burst /\ last'.calls = <<>>
                            /\ Abs(encoder_position') = 3)]_vars

\* after a handler raised at 4, a sample that repeats the level pair (delta 0)
\* was dispatched, and raised, again
C29_Witness ==
    /\ Decoded(last) /\ last.burst /\ last.raised /\ last.pos = 4
    /\ last_state \in {0, 5, 10, 15}
    /\ encoder_position = 4

\* C25: a sample that repeats the level pair read before it (the lower two
\* bits of the register) has delta 0 and leaves the lower two bits of the
\* register as they were, for every register value and every level pair; so
\* has the second of two equal samples in a row.
C25_RepeatedSampleIsIdle ==
    [][Decoded(last') =>
        LET levels == (last'.sample[1] * 2) + last'.sample[2]
        IN  /\ (levels = last_state % 4) =>
                  /\ last'.pos = encoder_position
                  /\ last_state' % 4 = last_state % 4
                  /\ ~last'.burst /\ last'.calls = <<>>
            /\ (Decoded(last) /\ last'.sample = last.sample) =>
                  (levels = last_state % 4 /\ last'.pos = encoder_position)]_vars

\* the pair 1, 1 read twice in a row: register 1111, the accumulator where
\* it was
C25_Witness ==
    /\ Decoded(last) /\ last.sample = <<1, 1>> /\ last_state = 15
    /\ last.pos = -2 /\ encoder_position = -2

\* C26: whenever _handle_button classifies a release, the timestamp it
\* subtracts is the time the button was last pressed, for every interleaving
\* of presses and releases with start() and stop().
C26_PressTimeIsLastPress ==
    [][(Sampled(last') /\ last'.pos = 1) =>
          /\ button_press_time = actual.pressed_at
          /\ last'.elapsed = now - actual.pressed_at]_vars

\* C27: after any sequence of add_mode (duplicate names included), set_mode
\* (valid or not, by name or index), set_mode_handlers and next_mode calls,
\* on a non-empty registry mode_index is in 0..count-1 and the name at
\* insertion position mode_index is current_mode.
C27_IndexMatchesCurrent ==
    (mode_order # <<>>) =>
        /\ mode_index >= 0 /\ mode_index <= Len(mode_order) - 1
        /\ mode_order[mode_index + 1] = current_mode
        /\ Len(mode_order) = Cardinality(DOMAIN modes)

\* set_mode(3) on three modes, one index too far, left c current at index 2
C27_Witness ==
    /\ last.op = "set_mode" /\ last.arg.kind = "index" /\ last.arg.index = 3
    /\ mode_order = <<"a", "b", "c">> /\ current_mode = "c" /\ mode_index = 2

\* C28: while the handler is not running, before the first start() and from
\* a stop() to the next start(), a call of _handle_encoder or _handle_button
\* changes nothing (register, accumulator, burst timestamp, button state,
\* press time) and calls no mode handler and no callback; so from the
\* return of stop() to the next start() no handler or callback is called.
C28_IdleHandlersDoNothing ==
    [][/\ (~running /\ last'.op \in {"handle_encoder", "handle_button"}) =>
             /\ ~last'.ran /\ last'.calls = <<>>
             /\ last_state' = last_state
             /\ encoder_position' = encoder_position
             /\ encoder_last_time' = encoder_last_time
             /\ last_button_state' = last_button_state
             /\ button_press_time' = button_press_time
             /\ HandlerState' = HandlerState
       /\ (last'.op = "stop") => ~running'
       /\ (running' /\ ~running) => (last'.op = "start")]_vars

\* the boost handlers the model binds
BoostHandlers == {"up_fast", "down_fast", "left_fast", "right_fast"}

\* C30: set_mode_handlers called without boost handlers on a mode that had
\* them clears both: the mode holds the two new base handlers and None for
\* the boost handlers; a boosted burst on it then calls the new base handler
\* of its direction repeatcount times, and no burst calls a boost handler
\* that is not bound to the mode when the burst happens.
C30_RebindClearsBoost ==
    [][/\ (/\ last'.op = "set_mode_handlers"
           /\ last'.arg.kind = "index" /\ last'.arg.index = 0) =>
             modes'["volume"] =
                 [name |-> "volume",
                  clockwise_handler |-> last'.arg.mode.clockwise_handler,
                  counterclockwise_handler |->
                      last'.arg.mode.counterclockwise_handler,
                  clockwise_boosthandler |->
                      last'.arg.mode.clockwise_boosthandler,
                  counterclockwise_boosthandler |->
                      last'.arg.mode.counterclockwise_boosthandler]
       /\ (last'.op = "handle_encoder" /\ last'.burst) =>
             LET m     == modes["volume"]
                 cw    == last'.pos > 0
                 bound == IF cw THEN m.clockwise_boosthandler
                          ELSE m.counterclockwise_boosthandler
                 base  == IF cw THEN m.clockwise_handler
                          ELSE m.counterclockwise_handler
                 count == last'.raw \div 2
             IN  /\ \A i \in 1..Len(last'.calls) :
                        last'.calls[i].fn \in BoostHandlers =>
                            last'.calls[i].fn = bound
                 /\ (last'.raw > 5 /\ bound = None) =>
                        /\ Len(last'.calls) = count + 2
                        /\ \A i \in 2..(count + 1) :
                               last'.calls[i] = Call(base, <<>>)]_vars

\* the mode was rebound without boost handlers, and a boosted clockwise burst
\* called the base handler five times
C30_Witness ==
    /\ modes["volume"] = Mode("volume", "up", "down", None, None)
    /\ last.op = "handle_encoder" /\ last.burst /\ last.raw = 10 /\ last.pos > 0
    /\ last.calls = <<Call("handle_clockwise", <<TRUE, 5>>),
                      Call("up", <<>>), Call("up", <<>>), Call("up", <<>>),
                      Call("up", <<>>), Call("up", <<>>),
                      Call("on_rotation", <<"volume_clockwise", "clockwise">>)>>

\* the workers that block in stop_event.wait(); while use_gpio holds, each
\* of them has run _setup_gpio to its end
Waiting == {i \in 1..Len(workers) : workers[i] = "blocked"}

\* C31: whatever start() and stop() calls are made and however the worker
\* threads interleave with them, at most one worker thread has set up the
\* pins and waits on the stop event.
C31_OneWorkerWaits == use_gpio => Cardinality(Waiting) <= 1

\* the number a typed text stands for, for the texts that are numerals
Numerals == {<<"5">>, <<"0", "7">>, <<"-", "3">>, <<"+", "4">>, <<"1", "5", "0">>}
Meaning(t) ==
    CASE t = <<"5">> -> 5
      [] t = <<"0", "7">> -> 7
      [] t = <<"-", "3">> -> -3
      [] t = <<"+", "4">> -> 4
      [] t = <<"1", "5", "0">> -> 150

InRange == min_val <= max_val => (min_val <= value /\ value <= max_val)

\* C32: with min_val <= max_val and an initial value in the range, the value
\* of a SpinEntry stays in the range through Up, Down, Page_Up and Page_Down
\* keys, assignments to value, set_value, set_range and text edits; a text
\* edit that is not a numeral, or is a numeral out of the range, leaves the
\* value as it was.
C32_ValueStaysInRange ==
    [][/\ InRange /\ InRange'
       /\ (/\ last'.op = "text_edit"
           /\ \/ typed' \notin Numerals
              \/ Meaning(typed') < min_val
              \/ Meaning(typed') > max_val) => value' = value]_vars

\* the value was clamped to the upper end of 12..20, and the edit "150" then
\* left it there
C32_Witness ==
    /\ last.op = "text_edit" /\ typed = <<"1", "5", "0">>
    /\ min_val = 12 /\ max_val = 20 /\ value = 20

Paired == is_active <=> (screen = "encoder_arrow_mode")

\* C33: is_active of a SpinEntry is true exactly when the mode it asked the
\* screen for last is encoder_arrow_mode, through any Return keys and
\* focus-out events; Return toggles the flag (asking for encoder_arrow_mode
\* when it activates, encoder_focus_mode when it deactivates), and a
\* focus-out leaves the widget inactive with encoder_focus_mode asked for.
C33_ActivePairedWithMode ==
    [][/\ Paired /\ Paired'
       /\ (last'.op = "Return") =>
             /\ is_active' = ~is_active
             /\ last'.calls = <<Call(IF is_active THEN "encoder_focus_mode"
                                     ELSE "encoder_arrow_mode", <<>>)>>
       /\ (last'.op = "focus_out") =>
             /\ ~is_active'
             /\ screen' = "encoder_focus_mode"
             /\ last'.calls = <<Call("encoder_focus_mode", <<>>)>>]_vars

\* Return pressed on an active widget: inactive again, the focus mode asked for
C33_Witness ==
    /\ last.op = "Return" /\ ~is_active /\ screen = "encoder_focus_mode"
    /\ last.calls = <<Call("encoder_focus_mode", <<>>)>>

====
